---- MODULE Spec2Model ----
(***************************************************************************)
(* Concrete Dropout (src/condrop/concrete_dropout.py).                     *)
(*                                                                         *)
(* The unit keeps a learnable logit p_logit, a cached keep probability p   *)
(* and a regularisation scalar.  forward(x, layer) optionally applies the  *)
(* relaxed dropout transform to x, calls the layer, and stores the         *)
(* regularisation term.                                                    *)
(*                                                                         *)
(* Numbers.  The tensors are floating point: finite precision, a largest   *)
(* finite value, and the values inf, -inf and nan.  The model keeps these  *)
(* features in a small format: a finite value is an integer count of       *)
(* 1/Scale units, of magnitude at most MaxFinite; results are rounded to   *)
(* the nearest unit, overflow to Inf / NegInf, and invalid operations      *)
(* give NaN.  sigmoid therefore reaches 0 and 1 exactly for large logits,  *)
(* as the float32 sigmoid does (there from p_logit >= 17).                 *)
(***************************************************************************)
EXTENDS Integers, Sequences, FiniteSets, TLC

VARIABLES
    self,       \* the unit: the fields assigned in __init__
    twin,       \* a second unit, built with another temperature, given the same calls
    layers,     \* the parameters of the layers the caller owns, by layer name
    call,       \* the last operation on self and, for a forward call, its arguments and result
    twinCall,   \* the result of the same forward call on twin
    ctor,       \* the arguments self was constructed with
    hist,       \* what has happened so far: a forward call, a stored regularisation, an optimizer step
    pc,         \* concurrent callers: where each caller is in its forward call
    frame,      \* concurrent callers: the local variables of each caller's forward call
    seen,       \* concurrent callers: the regularisation each caller read back after its call
    overlap     \* concurrent callers: whether the caller's call overlapped the other caller's

vars == <<self, twin, layers, call, twinCall, ctor, hist, pc, frame, seen, overlap>>

concVars == <<pc, frame, seen, overlap>>

----------------------------------------------------------------------------
(* The number format *)

Scale == 1000
MaxFinite == 40000

Inf == MaxFinite + 1
NegInf == 0 - Inf
NaN == MaxFinite + 2

IsFinite(a) == (0 - MaxFinite) <= a /\ a <= MaxFinite

\* round-to-nearest quotient a / b, for b > 0
RDiv(a, b) == LET q == a \div b
                  r == a % b
              IN  IF 2 * r >= b THEN q + 1 ELSE q

Round(v) == IF v > MaxFinite THEN Inf ELSE IF v < 0 - MaxFinite THEN NegInf ELSE v

Sign(a) == IF a = NaN THEN 0 ELSE IF a > 0 THEN 1 ELSE IF a < 0 THEN 0 - 1 ELSE 0

Signed(s, a) == IF s < 0 THEN 0 - a ELSE a

FNeg(a) == IF a = NaN THEN NaN ELSE 0 - a

FAdd(a, b) ==
    IF a = NaN \/ b = NaN THEN NaN
    ELSE IF ~IsFinite(a) /\ ~IsFinite(b) THEN (IF a = b THEN a ELSE NaN)
    ELSE IF ~IsFinite(a) THEN a
    ELSE IF ~IsFinite(b) THEN b
    ELSE Round(a + b)

FSub(a, b) == FAdd(a, FNeg(b))

FMul(a, b) ==
    IF a = NaN \/ b = NaN THEN NaN
    ELSE IF ~IsFinite(a) \/ ~IsFinite(b)
         THEN (IF a = 0 \/ b = 0 THEN NaN ELSE Signed(Sign(a) * Sign(b), Inf))
    ELSE Round(RDiv(a * b, Scale))

FDiv(a, b) ==
    IF a = NaN \/ b = NaN THEN NaN
    ELSE IF ~IsFinite(a) /\ ~IsFinite(b) THEN NaN
    ELSE IF ~IsFinite(b) THEN 0
    ELSE IF ~IsFinite(a) THEN Signed(Sign(a) * (IF b < 0 THEN 0 - 1 ELSE 1), Inf)
    ELSE IF b = 0 THEN (IF a = 0 THEN NaN ELSE Signed(Sign(a), Inf))
    ELSE IF b < 0 THEN Round(RDiv((0 - a) * Scale, 0 - b))
    ELSE Round(RDiv(a * Scale, b))

\* working precision of the elementary functions
Fine == 10 * Scale
Ln2 == 6931

RECURSIVE LnUp(_, _, _), LnDown(_, _, _), AtanhSeries(_, _, _, _)

AtanhSeries(t, z2, k, last) ==
    IF k > last THEN 0
    ELSE LET t2 == RDiv(t * z2, Fine)
         IN  RDiv(t2, k) + AtanhSeries(t2, z2, k + 2, last)

LnRatio(num, den) ==
    LET z  == RDiv(Fine * (num - den), num + den)
        z2 == RDiv(z * z, Fine)
    IN  2 * (z + AtanhSeries(z, z2, 3, 9))

LnUp(num, den, n) ==
    IF num < den THEN LnUp(2 * num, den, n - 1) ELSE n * Ln2 + LnRatio(num, den)

LnDown(num, den, n) ==
    IF num >= 2 * den THEN LnDown(num, 2 * den, n + 1) ELSE LnUp(num, den, n)

\* natural logarithm of a finite a > 0
LnCalc(a) == RDiv(LnDown(a, Scale, 0), Fine \div Scale)

\* the logarithms of the probabilities, computed once
RECURSIVE LnRange(_, _)

LnRange(lo, hi) ==
    IF lo = hi THEN <<LnCalc(lo)>>
    ELSE LET mid == (lo + hi) \div 2
         IN  LnRange(lo, mid) \o LnRange(mid + 1, hi)

LnTable == LnRange(1, Scale + 1)

Ln(a) == IF a <= Scale + 1 THEN LnTable[a] ELSE LnCalc(a)

ExpTable == <<10000, 3679, 1353, 498, 183, 67, 25, 9, 3, 1>>

RECURSIVE ExpSeries(_, _, _, _)

ExpSeries(term, r, n, last) ==
    IF n > last THEN 0
    ELSE LET t == 0 - RDiv(term * r, Fine * n)
         IN  t + ExpSeries(t, r, n + 1, last)

\* exp(-t) for a finite t >= 0, in working precision
ExpNegCalc(t) ==
    LET k == t \div Scale
        r == (t % Scale) * (Fine \div Scale)
    IN  RDiv(ExpTable[k + 1] * (Fine + ExpSeries(Fine, r, 1, 8)), Fine)

\* the exponentials that do not round to 0, computed once
RECURSIVE ExpNegRange(_, _)

ExpNegRange(lo, hi) ==
    IF lo = hi THEN <<ExpNegCalc(lo)>>
    ELSE LET mid == (lo + hi) \div 2
         IN  ExpNegRange(lo, mid) \o ExpNegRange(mid + 1, hi)

ExpNegTable == ExpNegRange(0, Len(ExpTable) * Scale - 1)

ExpNeg(t) == IF t >= Len(ExpTable) * Scale THEN 0 ELSE ExpNegTable[t + 1]

\* torch.log
FLog(a) ==
    IF a = NaN THEN NaN
    ELSE IF a < 0 THEN NaN
    ELSE IF a = 0 THEN NegInf
    ELSE IF a = Inf THEN Inf
    ELSE Ln(a)

\* torch.sigmoid
Sigmoid(a) ==
    IF a = NaN THEN NaN
    ELSE IF a = Inf THEN Scale
    ELSE IF a = NegInf THEN 0
    ELSE LET e == ExpNeg(IF a < 0 THEN 0 - a ELSE a)
         IN  IF a >= 0 THEN RDiv(Scale * Fine, Fine + e) ELSE RDiv(Scale * e, Fine + e)

----------------------------------------------------------------------------
(* Tensors: a batch is a sequence of samples, a sample a sequence of values *)

\* a logit that leaves out the log(1 - x) term
LogitWithoutComplement(x) == FLog(x)

Logit(x) == FSub(FLog(x), FLog(FSub(Scale, x)))

\* x[0].numel(): the number of elements of the first sample
NumelFirst(x) == Len(x[1])

\* x[0] raises IndexError on an empty batch
IndexFails(x) == Len(x) = 0

RECURSIVE SumOfSquares(_)

\* the loop over layer.parameters()
SumOfSquares(params) ==
    IF params = <<>> THEN 0
    ELSE FAdd(SumOfSquares(SubSeq(params, 1, Len(params) - 1)),
              FMul(params[Len(params)], params[Len(params)]))

\* layer(x): a layer without parameters passes its input on, <<w>> scales
\* it, <<w, b>> scales and shifts it
LayerValue(params, v) ==
    IF Len(params) = 0 THEN v
    ELSE IF Len(params) = 1 THEN FMul(params[1], v)
    ELSE FAdd(FMul(params[1], v), params[2])

LayerApply(params, x) ==
    [i \in 1..Len(x) |-> [j \in 1..Len(x[i]) |-> LayerValue(params, x[i][j])]]

----------------------------------------------------------------------------
(* ConcreteDropout.__init__ *)

\* torch.empty(1).uniform_(lo, hi), with rand the generator's draw from [0, 1)
Uniform(lo, hi, rand) == FAdd(lo, FMul(rand, FSub(hi, lo)))

\* nn.Parameter(torch.empty(1).uniform_(init_min, init_max)) of the logits
InitLogit(init_min, init_max, rand) == Uniform(Logit(init_min), Logit(init_max), rand)

Construct(weight_regulariser, dropout_regulariser, init_min, init_max, temperate, mc_dropout, rand) ==
    [ weight_regulariser  |-> weight_regulariser,
      dropout_regulariser |-> dropout_regulariser,
      p_logit             |-> InitLogit(init_min, init_max, rand),
      p                   |-> Sigmoid(InitLogit(init_min, init_max, rand)),
      temperature         |-> temperate,
      mc_dropout          |-> mc_dropout,
      training            |-> TRUE,
      regularisation      |-> 0 ]

----------------------------------------------------------------------------
(* ConcreteDropout._concrete_dropout *)

Eps == 1
Tmp == 100

\* a relaxation that honours the configured temperature
TemperatureConfigured(unit) == unit.temperature

\* the temperature the relaxation divides by
Temperature(unit) == Tmp

\* log(p + eps) - log(1 - p + eps): one value for the whole tensor
PScore(p) == FSub(FLog(FAdd(p, Eps)), FLog(FAdd(FSub(Scale, p), Eps)))

\* sigmoid(drop_prob / tmp) for one element, with noise u
DropProb(unit, pscore, u) ==
    LET score == FSub(FAdd(pscore, FLog(FAdd(u, Eps))),
                      FLog(FAdd(FSub(Scale, u), Eps)))
    IN  Sigmoid(FDiv(score, Temperature(unit)))

\* a transform that reads the cached p without refreshing it
CacheSkipped(unit) == unit

\* a transform that writes the probability into the parameter as well
CacheIntoLogit(unit) ==
    [unit EXCEPT !.p = Sigmoid(unit.p_logit), !.p_logit = Sigmoid(unit.p_logit)]

\* self.p = torch.sigmoid(self.p_logit)
Cache(unit) == [unit EXCEPT !.p = Sigmoid(unit.p_logit)]

\* the whole transform: caches p in the unit and returns
\* x * random_dropout_mask / retain_prob
ConcreteDropout(unit, x, noise) ==
    LET cached      == Cache(unit)
        pscore      == PScore(cached.p)
        retain_prob == FSub(Scale, cached.p)
    IN  [ unit |-> cached,
          x    |-> [i \in 1..Len(x) |-> [j \in 1..Len(x[i]) |->
                      FDiv(FMul(x[i][j],
                                FSub(Scale, DropProb(cached, pscore, noise[i][j]))),
                           retain_prob)]] ]

----------------------------------------------------------------------------
(* ConcreteDropout.forward *)

\* a branch that needs both flags
UseDropoutBoth(unit) == unit.training /\ unit.mc_dropout

\* the condition of the branch that applies dropout
UseDropout(unit) == unit.training \/ unit.mc_dropout

\* the branch: the unit afterwards and what the layer is called with
Branch(unit, x, noise) ==
    IF UseDropout(unit) THEN ConcreteDropout(unit, x, noise)
                        ELSE [ unit |-> unit, x |-> x ]

WeightsReg(unit, params) ==
    FDiv(FMul(unit.weight_regulariser, SumOfSquares(params)), FSub(Scale, unit.p))

DropoutReg(unit, x) ==
    FMul(FAdd(FMul(unit.p, FLog(unit.p)),
              FMul(FSub(Scale, unit.p), FLog(FSub(Scale, unit.p)))),
         unit.dropout_regulariser * NumelFirst(x))

\* an assignment that accumulates (+=)
StoreRegAccumulated(old, new) == FAdd(old, new)

\* the assignment to self.regularisation
StoreReg(old, new) == new

\* the whole call: the unit afterwards, what the layer was called with, the
\* output, and whether the call raised (then nothing is returned and
\* regularisation is not assigned)
AfterBranch(branch, x, params) ==
    IF IndexFails(x)
    THEN [ unit |-> branch.unit, layer_called |-> TRUE, layer_in |-> branch.x,
           output |-> <<>>, raised |-> TRUE ]
    ELSE [ unit     |-> [branch.unit EXCEPT !.regularisation =
                            StoreReg(branch.unit.regularisation,
                                     FAdd(WeightsReg(branch.unit, params),
                                          DropoutReg(branch.unit, x)))],
           layer_called |-> TRUE,
           layer_in |-> branch.x,
           output   |-> LayerApply(params, branch.x),
           raised   |-> FALSE ]

Forward(unit, x, params, noise) == AfterBranch(Branch(unit, x, noise), x, params)

----------------------------------------------------------------------------
(* The inputs of the model *)

MaxBatch == 2
MaxFeatures == 2

InitVals == {100, 500}
Temperatures == {100, 1000}
WeightRegularisers == {500}
DropoutRegularisers == {1000}
\* the values an optimizer step can leave in p_logit
PLogitVals == {1000, 8000}
\* the values an optimizer step can leave in a layer parameter
ParamVals == {1000, 2000}
XVals == {1000}
NoiseVals == <<300, 550, 450>>
Seeds == {0, 1}
\* the draws of the generator at construction
Rands == {0, 999}

LayerNames == {"activation", "linear"}

\* a batch of b samples of f features
Tensor(b, f, v) == [i \in 1..b |-> [j \in 1..f |-> IF (i + j) % 2 = 0 THEN v ELSE 0 - v]]

Inputs == {Tensor(b, f, v) : b \in 0..MaxBatch, f \in 1..MaxFeatures, v \in XVals}

\* torch.rand_like(x) under a seeded generator
RandLike(x, seed) ==
    [i \in 1..Len(x) |-> [j \in 1..Len(x[i]) |->
        NoiseVals[((seed + i + j) % Len(NoiseVals)) + 1]]]

NoCall(op) == [ op |-> op, x |-> <<>>, layer |-> "activation", noise |-> <<>>,
                layer_called |-> FALSE, layer_in |-> <<>>, output |-> <<>>,
                raised |-> FALSE, dropout |-> FALSE, again |-> FALSE ]

NoResult == [ layer_in |-> <<>>, output |-> <<>>, raised |-> FALSE ]

Callers == {1, 2}

NoFrame == [ x |-> <<>>, layer |-> "activation", output |-> <<>>, reg |-> 0 ]

----------------------------------------------------------------------------
(* The unit driven by one caller *)

Init ==
    /\ \E init_min \in InitVals, init_max \in InitVals,
          wr \in WeightRegularisers, dr \in DropoutRegularisers,
          t1 \in Temperatures, t2 \in Temperatures, mc \in BOOLEAN :
          /\ init_min <= init_max
          /\ t1 < t2
          /\ \E rand \in Rands :
                /\ self = Construct(wr, dr, init_min, init_max, t1, mc, rand)
                /\ twin = Construct(wr, dr, init_min, init_max, t2, mc, rand)
          /\ ctor = [ init_min |-> init_min, init_max |-> init_max ]
    /\ layers = [ n \in LayerNames |->
                    IF n = "activation" THEN <<>> ELSE <<2000, 500>> ]
    /\ call = NoCall("init")
    /\ twinCall = NoResult
    /\ hist = [ called |-> FALSE, stored |-> FALSE, stepped |-> FALSE ]
    /\ pc = [ t \in Callers |-> "idle" ]
    /\ frame = [ t \in Callers |-> NoFrame ]
    /\ seen = [ t \in Callers |-> 0 ]
    /\ overlap = [ t \in Callers |-> FALSE ]

\* output = unit(x, layer), on self and on twin
ForwardCall(x, layer, seed) ==
    \E noise \in {IF UseDropout(self) THEN RandLike(x, seed) ELSE <<>>} :
    \E mine \in {Forward(self, x, layers[layer], noise)},
       other \in {Forward(twin, x, layers[layer], noise)} :
        /\ self' = mine.unit
        /\ twin' = other.unit
        /\ call' = [ op |-> "forward", x |-> x, layer |-> layer, noise |-> noise,
                     layer_called |-> mine.layer_called,
                     layer_in |-> mine.layer_in, output |-> mine.output,
                     raised |-> mine.raised, dropout |-> UseDropout(self),
                     again |-> hist.stored ]
        /\ twinCall' = [ layer_in |-> other.layer_in, output |-> other.output,
                         raised |-> other.raised ]
        /\ hist' = [ hist EXCEPT !.called = TRUE,
                                 !.stored = hist.stored \/ ~mine.raised ]
        /\ UNCHANGED <<layers, ctor>>

\* optimizer.step(): the optimizer writes p_logit
OptimizerStep(v) ==
    /\ v # self.p_logit
    /\ self' = [ self EXCEPT !.p_logit = v ]
    /\ twin' = [ twin EXCEPT !.p_logit = v ]
    /\ call' = NoCall("step")
    /\ twinCall' = NoResult
    /\ hist' = [ hist EXCEPT !.stepped = TRUE ]
    /\ UNCHANGED <<layers, ctor>>

\* optimizer.step(): the optimizer writes the parameters of a layer
LayerStep(layer, w) ==
    /\ layers[layer] # <<>>
    /\ layers[layer][1] # w
    /\ layers' = [ layers EXCEPT ![layer][1] = w ]
    /\ call' = NoCall("step")
    /\ twinCall' = NoResult
    /\ UNCHANGED <<self, twin, ctor, hist>>

\* unit.train(mode) / unit.eval()
Train(mode) ==
    /\ mode # self.training
    /\ self' = [ self EXCEPT !.training = mode ]
    /\ twin' = [ twin EXCEPT !.training = mode ]
    /\ call' = NoCall("train")
    /\ twinCall' = NoResult
    /\ UNCHANGED <<layers, ctor, hist>>

Next ==
    \/ \E x \in Inputs, layer \in LayerNames, seed \in Seeds :
          ForwardCall(x, layer, seed) /\ UNCHANGED concVars
    \/ \E v \in PLogitVals : OptimizerStep(v) /\ UNCHANGED concVars
    \/ \E layer \in LayerNames, w \in ParamVals : LayerStep(layer, w) /\ UNCHANGED concVars
    \/ \E mode \in BOOLEAN : Train(mode) /\ UNCHANGED concVars

Spec == Init /\ [][Next]_vars

----------------------------------------------------------------------------
(* Two callers on one unit, without serialisation.  A caller's forward call *)
(* is cut where the other caller can run in between: after the branch      *)
(* (which caches p and calls the layer), after the terms are computed from  *)
(* the cached p, after regularisation is assigned, and before the caller    *)
(* reads regularisation back.                                               *)

Busy(t) == pc[t] \notin {"idle", "done", "failed"}

Other(t) == CHOOSE o \in Callers : o # t

\* the caller calls unit(x, layer)
Enter(t, x, layer) ==
    /\ ~Busy(t)
    /\ pc' = [ pc EXCEPT ![t] = "branch" ]
    /\ frame' = [ frame EXCEPT ![t] = [ NoFrame EXCEPT !.x = x, !.layer = layer ] ]
    /\ overlap' = IF Busy(Other(t)) THEN [ o \in Callers |-> TRUE ]
                                    ELSE [ overlap EXCEPT ![t] = FALSE ]
    /\ seen' = [ seen EXCEPT ![t] = 0 ]
    /\ UNCHANGED self

\* the branch of forward, with the call of the layer
BranchStep(t, seed) ==
    /\ pc[t] = "branch"
    /\ \E branch \in {Branch(self, frame[t].x, RandLike(frame[t].x, seed))} :
          /\ self' = branch.unit
          /\ frame' = [ frame EXCEPT ![t].output = LayerApply(layers[frame[t].layer], branch.x) ]
    /\ pc' = [ pc EXCEPT ![t] = "terms" ]
    /\ UNCHANGED <<seen, overlap>>

\* sum_of_squares, weights_reg and dropout_reg, from the cached p
TermsStep(t) ==
    /\ pc[t] = "terms"
    /\ IF IndexFails(frame[t].x)
       THEN /\ pc' = [ pc EXCEPT ![t] = "failed" ]
            /\ frame' = [ frame EXCEPT ![t] = NoFrame ]
       ELSE /\ pc' = [ pc EXCEPT ![t] = "store" ]
            /\ frame' = [ frame EXCEPT ![t].reg =
                            FAdd(WeightsReg(self, layers[frame[t].layer]),
                                 DropoutReg(self, frame[t].x)) ]
    /\ UNCHANGED <<self, seen, overlap>>

\* self.regularisation = weights_reg + dropout_reg, and the return: of the
\* locals, the model keeps the value the call computed
StoreStep(t) ==
    /\ pc[t] = "store"
    /\ self' = [ self EXCEPT !.regularisation = StoreReg(self.regularisation, frame[t].reg) ]
    /\ frame' = [ frame EXCEPT ![t] = [ NoFrame EXCEPT !.reg = frame[t].reg ] ]
    /\ pc' = [ pc EXCEPT ![t] = "returned" ]
    /\ UNCHANGED <<seen, overlap>>

\* the caller reads unit.regularisation for its loss
ReadStep(t) ==
    /\ pc[t] = "returned"
    /\ seen' = [ seen EXCEPT ![t] = self.regularisation ]
    /\ pc' = [ pc EXCEPT ![t] = "done" ]
    /\ UNCHANGED <<self, frame, overlap>>

ConcNext ==
    \/ \E t \in Callers, x \in Inputs, layer \in LayerNames :
          Enter(t, x, layer) /\ UNCHANGED <<twin, layers, call, twinCall, ctor, hist>>
    \/ \E t \in Callers, seed \in Seeds :
          BranchStep(t, seed) /\ UNCHANGED <<twin, layers, call, twinCall, ctor, hist>>
    \/ \E t \in Callers : TermsStep(t) /\ UNCHANGED <<twin, layers, call, twinCall, ctor, hist>>
    \/ \E t \in Callers : StoreStep(t) /\ UNCHANGED <<twin, layers, call, twinCall, ctor, hist>>
    \/ \E t \in Callers : ReadStep(t) /\ UNCHANGED <<twin, layers, call, twinCall, ctor, hist>>

SpecConc == Init /\ [][ConcNext]_vars

----------------------------------------------------------------------------
(* Properties *)

Returned == call.op = "forward" /\ ~call.raised

NonZero(x) == \E i \in 1..Len(x) : \E j \in 1..Len(x[i]) : x[i][j] # 0

\* the relaxed-dropout transform of x, x * mask / (1 - p), written out
Relaxed(unit, x, noise) ==
    [i \in 1..Len(x) |-> [j \in 1..Len(x[i]) |->
        FDiv(FMul(x[i][j], FSub(Scale, DropProb(unit, PScore(unit.p), noise[i][j]))),
             FSub(Scale, unit.p))]]

\* C1: after every forward call that returns, the cached p equals
\* sigmoid(p_logit)
C1_CachedPIsCurrent == Returned => self.p = Sigmoid(self.p_logit)

\* C2: the layer receives x itself, and the output is layer(x), exactly in
\* inference mode with mc_dropout false; in every other combination the layer
\* receives the relaxed-dropout transform of x
C2_BypassOnlyAtInference ==
    call.op = "forward" =>
        IF ~self.training /\ ~self.mc_dropout
        THEN /\ ~call.dropout
             /\ call.layer_in = call.x
             /\ ~call.raised => call.output = LayerApply(layers[call.layer], call.x)
        ELSE /\ call.dropout
             /\ Len(call.noise) = Len(call.x)
             /\ call.layer_in = Relaxed(self, call.x, call.noise)
             /\ ~call.raised => call.output = LayerApply(layers[call.layer], call.layer_in)

C2_Witness ==
    /\ Returned
    /\ ~self.training /\ ~self.mc_dropout
    /\ NonZero(call.x)
    /\ call.layer = "linear"
    /\ call.output = LayerApply(layers[call.layer], call.x)

\* C3: after a forward call that returns, regularisation is weights_reg +
\* dropout_reg of that call's layer parameters, x and p, whatever was stored
\* before
C3_RegularisationOverwritten ==
    Returned =>
        self.regularisation = FAdd(WeightsReg(self, layers[call.layer]),
                                   DropoutReg(self, call.x))

C3_Witness ==
    /\ Returned
    /\ call.again
    /\ IsFinite(self.regularisation)
    /\ self.regularisation # 0

\* C4: a forward call changes no field of the unit but p and regularisation,
\* and no parameter of a layer
C4_ForwardFrame ==
    [][ call'.op = "forward" =>
            /\ [self' EXCEPT !.p = self.p, !.regularisation = self.regularisation] = self
            /\ layers' = layers ]_vars

C4_Witness ==
    /\ Returned
    /\ call.dropout
    /\ hist.stepped
    /\ self.p = Sigmoid(self.p_logit)
    /\ self.regularisation # 0

\* C6: a unit built with another temperature and given the same calls has
\* the same state, hands the layer the same tensor and returns the same
\* output
C6_TemperatureIgnored ==
    /\ twin.temperature # self.temperature
    /\ [twin EXCEPT !.temperature = self.temperature] = self
    /\ call.op = "forward" =>
          /\ twinCall.layer_in = call.layer_in
          /\ twinCall.output = call.output
          /\ twinCall.raised = call.raised

C6_Witness ==
    /\ Returned
    /\ call.dropout
    /\ NonZero(call.output)
    /\ \E i \in 1..Len(call.x) : \E j \in 1..Len(call.x[i]) :
          /\ IsFinite(call.layer_in[i][j])
          /\ call.layer_in[i][j] # 0
          /\ call.layer_in[i][j] # call.x[i][j]

\* C7: before any forward call and optimizer step regularisation is 0, p is
\* sigmoid(p_logit) and p_logit lies between the logits of init_min and
\* init_max; with init_min = init_max, p is that value until the optimizer
\* changes p_logit
C7_InitialState ==
    /\ (~hist.called /\ ~hist.stepped) =>
          /\ self.regularisation = 0
          /\ self.p = Sigmoid(self.p_logit)
          /\ Logit(ctor.init_min) <= self.p_logit
          /\ self.p_logit <= Logit(ctor.init_max)
    /\ (ctor.init_min = ctor.init_max /\ ~hist.stepped) => self.p = ctor.init_min

C7_Witness ==
    /\ Returned
    /\ call.dropout
    /\ ~hist.stepped
    /\ ctor.init_min = ctor.init_max
    /\ self.p = ctor.init_min

\* C8: the cached keep probability is strictly between 0 and 1, so 1 - p is
\* never zero
C8_PStrictlyInside == 0 < self.p /\ self.p < Scale

\* C9: with a layer without parameters, forward returns the layer's output,
\* the weight term is zero and regularisation is the dropout term alone
C9_NoParameters ==
    (Returned /\ layers[call.layer] = <<>>) =>
        /\ call.output = LayerApply(<<>>, call.layer_in)
        /\ WeightsReg(self, layers[call.layer]) = 0
        /\ self.regularisation = DropoutReg(self, call.x)

\* C10: a forward call on an empty batch raises after the layer was called
\* and before regularisation is assigned: nothing is returned, regularisation
\* keeps its value, and p was rewritten if the dropout branch ran
C10_EmptyBatchFails ==
    [][ (call'.op = "forward" /\ call'.x = <<>>) =>
            /\ call'.raised
            /\ call'.layer_called
            /\ call'.output = <<>>
            /\ self'.regularisation = self.regularisation
            /\ self'.p = IF self.training \/ self.mc_dropout
                         THEN Sigmoid(self.p_logit) ELSE self.p ]_vars

C10_Witness ==
    /\ call.op = "forward"
    /\ call.x = <<>>
    /\ call.raised
    /\ call.dropout
    /\ hist.stored
    /\ hist.stepped
    /\ self.regularisation # 0
    /\ self.p = Sigmoid(self.p_logit)

\* C5: a caller whose call did not overlap the other caller's reads back the
\* regularisation its own call computed; callers whose calls overlap can read
\* the other call's value
C5_SerialisedReadsOwn ==
    \A t \in Callers : (pc[t] = "done" /\ ~overlap[t]) => seen[t] = frame[t].reg

C5_Witness ==
    \E t \in Callers :
        /\ pc[t] = "done"
        /\ overlap[t]
        /\ seen[t] # frame[t].reg
        /\ seen[t] = frame[Other(t)].reg
        /\ pc[Other(t)] \in {"returned", "done"}

====
